---- MODULE Spec2Model ----
(***************************************************************************)
(* Model of jmx_check.py: one run of a check, either through the command   *)
(* line (__main__) or through a library call of JMXCheck.check_metric.     *)
(* Python objects are records tagged by their type in field t; a JSON      *)
(* object is a "dict" holding the sequence of its <<key, value>> items.    *)
(***************************************************************************)
EXTENDS Integers, Sequences, FiniteSets, TLC

\* Bounds of the model
MaxVal == 2        \* numbers in responses and literal thresholds range over 0..MaxVal
MaxBeans == 2      \* a pattern response carries 0..MaxBeans beans

----------------------------------------------------------------------------
\* Python values

PyNone == [t |-> "none"]
PyInt(n) == [t |-> "int", n |-> n]
\* the float n.0 (only integer-valued floats occur within the bounds)
PyFloat(n) == [t |-> "float", n |-> n]
PyStr(s) == [t |-> "str", s |-> s]
Dict(items) == [t |-> "dict", items |-> items]
PyList(items) == [t |-> "list", items |-> items]
\* an MBean object given as a threshold (attribute 'Value', no key)
MBeanRef == [t |-> "mbean"]

IsNum(v) == v.t \in {"int", "float"}

\* result of an expression that may raise: exc = "none" or the exception
Ok(v) == [exc |-> "none", v |-> v]
Raise(e) == [exc |-> e, v |-> PyNone]

\* k in d
Has(d, k) == \E i \in 1..Len(d.items) : d.items[i][1] = k
\* d[k]
Get(d, k) == d.items[CHOOSE i \in 1..Len(d.items) : d.items[i][1] = k][2]

\* the truth value of an object in `if x:'
Truthy(v) ==
    CASE v.t = "none" -> FALSE
      [] v.t = "str" -> v.s # ""
      [] v.t = "int" -> v.n # 0
      [] v.t = "float" -> v.n # 0
      [] v.t = "dict" -> Len(v.items) > 0
      [] OTHER -> TRUE

\* repr() of a value inside a dict; py is the interpreter's major version
Repr(py, v) ==
    CASE v.t = "int" -> ToString(v.n)
      [] v.t = "float" -> ToString(v.n) \o ".0"
      [] v.t = "str" -> (IF py = 2 THEN "u'" ELSE "'") \o v.s \o "'"
      [] OTHER -> "None"

RECURSIVE ReprItems(_, _, _)
ReprItems(py, items, i) ==
    IF i > Len(items) THEN ""
    ELSE (IF i > 1 THEN ", " ELSE "")
         \o (IF py = 2 THEN "u'" ELSE "'") \o items[i][1] \o "': "
         \o Repr(py, items[i][2]) \o ReprItems(py, items, i + 1)

\* str(v)
Str(py, v) ==
    CASE v.t = "int" -> ToString(v.n)
      [] v.t = "float" -> ToString(v.n) \o ".0"
      [] v.t = "str" -> v.s
      [] v.t = "none" -> "None"
      [] v.t = "dict" -> "{" \o ReprItems(py, v.items, 1) \o "}"
      [] OTHER -> "<jmx_check.MBean object>"

\* the numbers a numeric string of the model can denote
ParseRange == 0..(100 * (MaxVal + 1))

\* float(v): the number, or the exception float() raises
Float(v) ==
    CASE v.t \in {"int", "float"} -> [exc |-> "none", n |-> v.n]
      [] v.t = "str" ->
           IF \E n \in ParseRange : v.s = ToString(n) \/ v.s = ToString(n) \o ".0"
           THEN [exc |-> "none",
                 n |-> CHOOSE n \in ParseRange :
                          v.s = ToString(n) \/ v.s = ToString(n) \o ".0"]
           ELSE [exc |-> "ValueError", n |-> 0]
      [] OTHER -> [exc |-> "TypeError", n |-> 0]

\* v >= f and v <= f for a float f: a comparison of a number with a number;
\* Python 3 raises TypeError for another type, Python 2 orders every number
\* below every other object
GreaterEq(py, v, f) ==
    IF IsNum(v) THEN [exc |-> "none", b |-> v.n >= f]
    ELSE IF py = 2 THEN [exc |-> "none", b |-> TRUE]
    ELSE [exc |-> "TypeError", b |-> FALSE]

LessEq(py, v, f) ==
    IF IsNum(v) THEN [exc |-> "none", b |-> v.n <= f]
    ELSE IF py = 2 THEN [exc |-> "none", b |-> FALSE]
    ELSE [exc |-> "TypeError", b |-> FALSE]

----------------------------------------------------------------------------
\* MBeanResult and MBean.get_jmx_result

MBeanName == "foo:type=Bar"
BeanName(i) == "bean" \o ToString(i)

MBeanResult(mbean_name, content) == [mbean_name |-> mbean_name, content |-> content]

\* MBeanResult.get_value_from_result
get_value_from_result(res, mbean_attribute, mbean_key) ==
    IF ~Has(res.content, mbean_attribute) THEN Raise("KeyError")
    ELSE LET a == Get(res.content, mbean_attribute) IN
         IF Truthy(mbean_key)
         THEN IF a.t # "dict" THEN Raise("TypeError")
              ELSE IF ~Has(a, mbean_key.s) THEN Raise("KeyError")
              ELSE Ok(Get(a, mbean_key.s))
         ELSE Ok(a)

\* the classes of the requests library an exception is an instance of
RequestsBases(e) ==
    CASE e = "ConnectionError" -> {"ConnectionError", "RequestException"}
      [] e = "ConnectTimeout" -> {"ConnectTimeout", "ConnectionError", "Timeout", "RequestException"}
      [] e = "ReadTimeout" -> {"ReadTimeout", "Timeout", "RequestException"}
      [] OTHER -> {e}

\* the classes named by the except clause of get_jmx_result
CaughtClasses == {"ConnectionError", "ConnectTimeout"}

\* the ways requests.get can fail: a timeout is set only when both
\* credentials are given, so only then can requests report one
HttpFailures(auth) ==
    IF auth THEN {"ConnectionError", "ConnectTimeout", "ReadTimeout"}
    ELSE {"ConnectionError"}

\* the values of an attribute in a response
Scalars == {PyInt(n) : n \in 0..MaxVal} \cup {PyFloat(1), PyStr("1")}
AttrValues == Scalars \cup {Dict(<< <<"used", PyInt(1)>> >>)}
\* the 'value' object of one bean: a mapping from attribute to value
Contents == {Dict(<< <<"Value", v>> >>) : v \in AttrValues} \cup {Dict(<< >>)}
\* the beans of a pattern response: bean i reports the number i (wrapped
\* into the range of the values), so no two neighbours report the same
BeanContent(i) == Dict(<< <<"Value", PyInt(i % (MaxVal + 1))>> >>)
PatternValues ==
    {Dict([i \in 1..n |-> <<BeanName(i), BeanContent(i)>>]) : n \in 0..MaxBeans}

\* the JSON bodies of a response, unexpected ones included
Bodies ==
    {[t |-> "notjson"]}
    \cup {Dict(<< <<"request", Dict(<< >>)>>, <<"error", PyStr("not found")>> >>)}
    \cup {Dict(<< <<"value", PyInt(1)>> >>)}
    \cup {Dict(<< <<"request", Dict(<< >>)>>, <<"value", PyInt(1)>> >>)}
    \cup {Dict(<< <<"request", Dict(<< <<"mbean", PyStr(MBeanName)>> >>)>>, <<"value", c>> >>)
          : c \in Contents}
    \cup {Dict(<< <<"request", Dict(<< >>)>>, <<"value", v>> >>) : v \in PatternValues}

\* what the HTTP GET can produce
HttpOutcomes(auth) ==
    {[kind |-> "exc", exc |-> e] : e \in HttpFailures(auth)}
    \cup {[kind |-> "resp", status_code |-> 500, body |-> [t |-> "notjson"]]}
    \cup {[kind |-> "resp", status_code |-> 200, body |-> b] : b \in Bodies}

\* the orders in which dict.items() can yield n items (Python before 3.7
\* promises none)
ItemOrders(n) == {f \in [1..n -> 1..n] : \A i, j \in 1..n : f[i] = f[j] => i = j}

\* get_jmx_result with a slip: of a pattern response only the first entry
\* is wrapped
get_jmx_result_first_entry(http, order) ==
    IF http.kind = "exc"
    THEN IF RequestsBases(http.exc) \cap CaughtClasses # {}
         THEN Raise("JolokiaConnectionError")
         ELSE Raise(http.exc)
    ELSE IF http.status_code # 200 THEN Raise("AssertionError")
    ELSE IF http.body.t = "notjson" THEN Raise("ValueError")
    ELSE LET metrics == http.body IN
         IF ~Has(metrics, "value") THEN Raise("JolokiaInvalidResponse")
         ELSE IF ~Has(metrics, "request") THEN Raise("KeyError")
         ELSE IF Has(Get(metrics, "request"), "mbean")
         THEN Ok(PyList(<< MBeanResult(Get(Get(metrics, "request"), "mbean").s,
                                       Get(metrics, "value")) >>))
         ELSE LET value == Get(metrics, "value") IN
              IF value.t # "dict" THEN Raise("AttributeError")
              ELSE IF Len(value.items) = 0 THEN Ok(PyList(<< >>))
              ELSE Ok(PyList(<< MBeanResult(value.items[order[1]][1],
                                            value.items[order[1]][2]) >>))

\* MBean.get_jmx_result on the outcome of the GET
get_jmx_result(http, order) ==
    IF http.kind = "exc"
    THEN IF RequestsBases(http.exc) \cap CaughtClasses # {}
         THEN Raise("JolokiaConnectionError")
         ELSE Raise(http.exc)
    ELSE IF http.status_code # 200 THEN Raise("AssertionError")
    ELSE IF http.body.t = "notjson" THEN Raise("ValueError")
    ELSE LET metrics == http.body IN
         IF ~Has(metrics, "value") THEN Raise("JolokiaInvalidResponse")
         ELSE IF ~Has(metrics, "request") THEN Raise("KeyError")
         ELSE IF Has(Get(metrics, "request"), "mbean")
         THEN Ok(PyList(<< MBeanResult(Get(Get(metrics, "request"), "mbean").s,
                                       Get(metrics, "value")) >>))
         ELSE LET value == Get(metrics, "value") IN
              IF value.t # "dict" THEN Raise("AttributeError")
              ELSE Ok(PyList([i \in 1..Len(value.items) |->
                         MBeanResult(value.items[order[i]][1], value.items[order[i]][2])]))

\* the number of entries dict.items() walks in a response
NumItems(http) ==
    IF /\ http.kind = "resp"
       /\ http.body.t = "dict"
       /\ Has(http.body, "value")
       /\ Get(http.body, "value").t = "dict"
    THEN Len(Get(http.body, "value").items)
    ELSE 0

----------------------------------------------------------------------------
\* the arithmetic and the classification of JMXCheck.validate_result

\* a / b rounded to an integer, ties to even (Python 3) and ties away from
\* zero (Python 2), for a >= 0 and b > 0
RoundHalfEven(a, b) ==
    LET q == a \div b
        r == a % b
    IN  IF 2 * r > b THEN q + 1
        ELSE IF 2 * r < b THEN q
        ELSE IF q % 2 = 0 THEN q ELSE q + 1

RoundHalfAway(a, b) ==
    LET q == a \div b
        r == a % b
    IN  IF 2 * r >= b THEN q + 1 ELSE q

\* round((mbean_value / second_mbean_value) * 100)
percent(py, p, s) ==
    IF ~IsNum(p) \/ ~IsNum(s) THEN Raise("TypeError")
    ELSE IF s.n = 0 THEN Raise("ZeroDivisionError")
    ELSE IF py = 3 THEN Ok(PyInt(RoundHalfEven(100 * p.n, s.n)))
    ELSE IF p.t = "int" /\ s.t = "int" THEN Ok(PyFloat((p.n \div s.n) * 100))
    ELSE Ok(PyFloat(RoundHalfAway(100 * p.n, s.n)))

\* "({}/{})".format(mbean_value, second_mbean_value)
percent_factors(py, p, s) == "(" \o Str(py, p) \o "/" \o Str(py, s) \o ")"

\* threshold_met with a slip: the reverse flag is not looked at
threshold_met_no_reverse(py, v, thresh, cmp, rev) ==
    IF cmp THEN [exc |-> "none", b |-> Str(py, v) = Str(py, thresh)]
    ELSE LET f == Float(thresh) IN
         IF f.exc # "none" THEN [exc |-> f.exc, b |-> FALSE]
         ELSE GreaterEq(py, v, f.n)

\* threshold_met with a slip: compare mode compares numbers where it can
threshold_met_numeric(py, v, thresh, cmp, rev) ==
    IF cmp
    THEN IF IsNum(v) /\ Float(thresh).exc = "none"
         THEN [exc |-> "none", b |-> v.n = Float(thresh).n]
         ELSE [exc |-> "none", b |-> Str(py, v) = Str(py, thresh)]
    ELSE LET f == Float(thresh) IN
         IF f.exc # "none" THEN [exc |-> f.exc, b |-> FALSE]
         ELSE IF ~rev THEN GreaterEq(py, v, f.n)
         ELSE LessEq(py, v, f.n)

\* one of the two conditions of the if/elif, against threshold thresh
threshold_met(py, v, thresh, cmp, rev) ==
    IF cmp THEN [exc |-> "none", b |-> Str(py, v) = Str(py, thresh)]
    ELSE LET f == Float(thresh) IN
         IF f.exc # "none" THEN [exc |-> f.exc, b |-> FALSE]
         ELSE IF ~rev THEN GreaterEq(py, v, f.n)
         ELSE LessEq(py, v, f.n)

\* classify with a slip: the warning condition is tested first
classify_warning_first(py, v, warning, critical, cmp, rev) ==
    LET warn == threshold_met(py, v, warning, cmp, rev) IN
    IF warn.exc # "none" THEN [exc |-> warn.exc, code |-> 0]
    ELSE IF warn.b THEN [exc |-> "none", code |-> 1]
    ELSE LET crit == threshold_met(py, v, critical, cmp, rev) IN
         IF crit.exc # "none" THEN [exc |-> crit.exc, code |-> 0]
         ELSE IF crit.b THEN [exc |-> "none", code |-> 2]
         ELSE [exc |-> "none", code |-> 0]

\* the return code chosen by the if/elif, critical first
classify(py, v, warning, critical, cmp, rev) ==
    LET crit == threshold_met(py, v, critical, cmp, rev) IN
    IF crit.exc # "none" THEN [exc |-> crit.exc, code |-> 0]
    ELSE IF crit.b THEN [exc |-> "none", code |-> 2]
    ELSE LET warn == threshold_met(py, v, warning, cmp, rev) IN
         IF warn.exc # "none" THEN [exc |-> warn.exc, code |-> 0]
         ELSE IF warn.b THEN [exc |-> "none", code |-> 1]
         ELSE [exc |-> "none", code |-> 0]

----------------------------------------------------------------------------
\* the state of one run

VARIABLES
    pc,                     \* the position of the run
    python,                 \* the interpreter's major version, 2 or 3
    caller,                 \* "cli" for __main__, "lib" for a library call
    compare, reverse,       \* the flags of validate_result
    mbean_key,              \* mbean.key of the primary MBean
    second_mbean,           \* None, an MBean, or what __main__ passes
    warning_thresh, critical_thresh,
    first_value,            \* the value read from the primary MBean
    second_mbean_value,
    mbean_value,            \* the value that is classified
    mbean_percent_factors,
    return_code, return_value,
    raised,                 \* the exception that left validate_result, or "none"
    stdout, stderr,         \* what was printed
    exit_code,              \* the exit status of the process, -1 while it runs
    log,                    \* the requests issued and completed, in order
    http, result,           \* the outcome of the last GET and what get_jmx_result made of it
    samples                 \* per fetch, the number of samples returned, -1 if none

vars == <<pc, python, caller, compare, reverse, mbean_key, second_mbean,
          warning_thresh, critical_thresh, first_value, second_mbean_value,
          mbean_value, mbean_percent_factors, return_code, return_value,
          raised, stdout, stderr, exit_code, log, http, result, samples>>

Roles == {"warning", "critical", "primary", "second"}

\* thresholds a library caller can pass, and those argparse yields (strings)
Literals == {PyInt(n) : n \in 0..MaxVal} \cup {PyFloat(1), PyStr("1"), PyStr("x")}
LibThresholds == Literals \cup {MBeanRef}
CliThresholds == {PyStr(ToString(n)) : n \in 0..MaxVal} \cup {PyStr("1.0"), PyStr("x")}
Keys == {PyNone, PyStr("used")}

NoHttp == [kind |-> "none"]

Init ==
    /\ pc = "idle"
    /\ python \in {2, 3}
    /\ caller = "none"
    /\ compare = FALSE /\ reverse = FALSE
    /\ mbean_key = PyNone
    /\ second_mbean = PyNone
    /\ warning_thresh = PyNone /\ critical_thresh = PyNone
    /\ first_value = PyNone /\ second_mbean_value = PyNone
    /\ mbean_value = PyNone
    /\ mbean_percent_factors = PyNone
    /\ return_code = 0 /\ return_value = PyNone
    /\ raised = "none"
    /\ stdout = << >> /\ stderr = << >>
    /\ exit_code = -1
    /\ log = << >>
    /\ http = NoHttp /\ result = Raise("none")
    /\ samples = [r \in Roles |-> -1]

locals == <<first_value, second_mbean_value, mbean_value, mbean_percent_factors,
            return_code, return_value>>
outputs == <<raised, stdout, stderr, exit_code, log, http, result, samples>>
args == <<caller, compare, reverse, mbean_key, second_mbean>>

\* __main__: the arguments parsed and passed to check_metric
main ==
    /\ pc = "idle"
    /\ caller' = "cli"
    /\ compare' \in BOOLEAN /\ reverse' \in BOOLEAN
    /\ mbean_key' \in Keys
    /\ second_mbean' \in {PyNone, PyStr(MBeanName)}
    /\ warning_thresh' \in CliThresholds
    /\ critical_thresh' \in CliThresholds
    /\ pc' = "warning"
    /\ UNCHANGED <<python, locals, outputs>>

\* a program that imports the module calls check_metric
library_call ==
    /\ pc = "idle"
    /\ caller' = "lib"
    /\ compare' \in BOOLEAN /\ reverse' \in BOOLEAN
    /\ mbean_key' \in Keys
    /\ second_mbean' \in {PyNone, MBeanRef}
    /\ warning_thresh' \in LibThresholds
    /\ critical_thresh' \in LibThresholds
    /\ pc' = "warning"
    /\ UNCHANGED <<python, locals, outputs>>

\* the outcomes of one call of get_jmx_result: __main__ builds its MBeans
\* without credentials, a library caller may give them
Fetches ==
    UNION {UNION {{[http |-> h, res |-> get_jmx_result(h, o)] : o \in ItemOrders(NumItems(h))}
                  : h \in HttpOutcomes(auth)}
           : auth \in IF caller = "cli" THEN {FALSE} ELSE BOOLEAN}

Logged(role) == log \o << <<"request", role>>, <<"completed", role>> >>
Counted(role, f) ==
    [samples EXCEPT ![role] = IF f.res.exc = "none" THEN Len(f.res.v.items) ELSE -1]

\* ReturnAmbiguous with a slip: the code returned is WARNING
ReturnAmbiguous_warning(msg) ==
    /\ stdout' = Append(stdout, msg)
    /\ return_code' = 1
    /\ return_value' = PyNone
    /\ raised' = "none"
    /\ pc' = "print"

\* ReturnAmbiguous with a slip: the message is printed and the evaluation
\* goes on with the primary MBean
ReturnAmbiguous_continue(msg) ==
    /\ stdout' = Append(stdout, msg)
    /\ return_code' = return_code
    /\ return_value' = return_value
    /\ raised' = "none"
    /\ pc' = "primary"

\* validate_result returns (2, None) after printing msg
ReturnAmbiguous(msg) ==
    /\ stdout' = Append(stdout, msg)
    /\ return_code' = 2
    /\ return_value' = PyNone
    /\ raised' = "none"
    /\ pc' = "print"

\* an exception leaves validate_result and check_metric
Propagate(e) ==
    /\ raised' = e
    /\ pc' = "raised"

\* validate_result: the warning threshold, fetched when it is an MBean
resolve_warning ==
    /\ pc = "warning"
    /\ IF warning_thresh.t = "mbean"
       THEN \E f \in Fetches :
              /\ http' = f.http /\ result' = f.res
              /\ log' = Logged("warning")
              /\ samples' = Counted("warning", f)
              /\ IF f.res.exc # "none"
                 THEN Propagate(f.res.exc)
                      /\ UNCHANGED <<warning_thresh, stdout, return_code, return_value>>
                 ELSE IF Len(f.res.v.items) > 1
                 THEN ReturnAmbiguous("MONITORING ERROR - Warning threshold is MBean and does not return a single value")
                      /\ UNCHANGED warning_thresh
                 ELSE IF Len(f.res.v.items) = 0
                 THEN ReturnAmbiguous("MONITORING ERROR - Warning threshold is MBean and does not return a value")
                      /\ UNCHANGED warning_thresh
                 ELSE LET v == get_value_from_result(f.res.v.items[1], "Value", PyNone) IN
                      IF v.exc # "none"
                      THEN Propagate(v.exc)
                           /\ UNCHANGED <<warning_thresh, stdout, return_code, return_value>>
                      ELSE /\ warning_thresh' = v.v
                           /\ pc' = "critical"
                           /\ UNCHANGED <<raised, stdout, return_code, return_value>>
       ELSE /\ pc' = "critical"
            /\ UNCHANGED <<warning_thresh, http, result, log, samples, raised, stdout,
                           return_code, return_value>>
    /\ UNCHANGED <<python, args, critical_thresh, first_value, second_mbean_value,
                   mbean_value, mbean_percent_factors, stderr, exit_code>>

\* validate_result: the critical threshold, fetched when it is an MBean
resolve_critical ==
    /\ pc = "critical"
    /\ IF critical_thresh.t = "mbean"
       THEN \E f \in Fetches :
              /\ http' = f.http /\ result' = f.res
              /\ log' = Logged("critical")
              /\ samples' = Counted("critical", f)
              /\ IF f.res.exc # "none"
                 THEN Propagate(f.res.exc)
                      /\ UNCHANGED <<critical_thresh, stdout, return_code, return_value>>
                 ELSE IF Len(f.res.v.items) > 1
                 THEN ReturnAmbiguous("MONITORING ERROR - Critical threshold is MBean and does not return a single value")
                      /\ UNCHANGED critical_thresh
                 ELSE IF Len(f.res.v.items) = 0
                 THEN ReturnAmbiguous("MONITORING ERROR - Critical threshold is MBean and does not return a value")
                      /\ UNCHANGED critical_thresh
                 ELSE LET v == get_value_from_result(f.res.v.items[1], "Value", PyNone) IN
                      IF v.exc # "none"
                      THEN Propagate(v.exc)
                           /\ UNCHANGED <<critical_thresh, stdout, return_code, return_value>>
                      ELSE /\ critical_thresh' = v.v
                           /\ pc' = "primary"
                           /\ UNCHANGED <<raised, stdout, return_code, return_value>>
       ELSE /\ pc' = "primary"
            /\ UNCHANGED <<critical_thresh, http, result, log, samples, raised, stdout,
                           return_code, return_value>>
    /\ UNCHANGED <<python, args, warning_thresh, first_value, second_mbean_value,
                   mbean_value, mbean_percent_factors, stderr, exit_code>>

\* result[0].get_value_from_result(attribute, key) on a returned list
first_sample_value(res, key) ==
    IF Len(res) = 0 THEN Raise("IndexError")
    ELSE get_value_from_result(res[1], "Value", key)

\* validate_result: the value of the primary MBean
fetch_primary ==
    /\ pc = "primary"
    /\ \E f \in Fetches :
         /\ http' = f.http /\ result' = f.res
         /\ log' = Logged("primary")
         /\ samples' = Counted("primary", f)
         /\ IF f.res.exc # "none"
            THEN Propagate(f.res.exc) /\ UNCHANGED <<mbean_value, first_value>>
            ELSE LET v == first_sample_value(f.res.v.items, mbean_key) IN
                 IF v.exc # "none"
                 THEN Propagate(v.exc) /\ UNCHANGED <<mbean_value, first_value>>
                 ELSE /\ mbean_value' = v.v
                      /\ first_value' = v.v
                      /\ pc' = "second"
                      /\ UNCHANGED raised
    /\ UNCHANGED <<python, args, warning_thresh, critical_thresh, second_mbean_value,
                   mbean_percent_factors, return_code, return_value, stdout, stderr,
                   exit_code>>

\* validate_result: the second MBean and the percentage
fetch_second ==
    /\ pc = "second"
    /\ IF ~Truthy(second_mbean)
       THEN /\ pc' = "classify"
            /\ UNCHANGED <<http, result, log, samples, raised, second_mbean_value,
                           mbean_percent_factors, mbean_value>>
       ELSE IF second_mbean.t # "mbean"
       THEN \* a str has no get_jmx_result
            /\ Propagate("AttributeError")
            /\ UNCHANGED <<http, result, log, samples, second_mbean_value,
                           mbean_percent_factors, mbean_value>>
       ELSE \E f \in Fetches :
              /\ http' = f.http /\ result' = f.res
              /\ log' = Logged("second")
              /\ samples' = Counted("second", f)
              /\ IF f.res.exc # "none"
                 THEN Propagate(f.res.exc)
                      /\ UNCHANGED <<second_mbean_value, mbean_percent_factors, mbean_value>>
                 ELSE LET v == first_sample_value(f.res.v.items, PyNone) IN
                      IF v.exc # "none"
                      THEN Propagate(v.exc)
                           /\ UNCHANGED <<second_mbean_value, mbean_percent_factors, mbean_value>>
                      ELSE LET pct == percent(python, mbean_value, v.v) IN
                           /\ second_mbean_value' = v.v
                           /\ mbean_percent_factors' =
                                  PyStr(percent_factors(python, mbean_value, v.v))
                           /\ IF pct.exc # "none"
                              THEN Propagate(pct.exc) /\ UNCHANGED mbean_value
                              ELSE /\ mbean_value' = pct.v
                                   /\ pc' = "classify"
                                   /\ UNCHANGED raised
    /\ UNCHANGED <<python, args, warning_thresh, critical_thresh, first_value,
                   return_code, return_value, stdout, stderr, exit_code>>

\* the display value: str(mbean_value), with the factors after a percentage
display(py, v, second, factors) ==
    IF Truthy(second) THEN Str(py, v) \o "% " \o Str(py, factors) ELSE Str(py, v)

\* validate_result: the if/elif on the thresholds and the return
validate_result ==
    /\ pc = "classify"
    /\ LET c == classify(python, mbean_value, warning_thresh, critical_thresh,
                         compare, reverse) IN
       IF c.exc # "none"
       THEN Propagate(c.exc) /\ UNCHANGED <<return_code, return_value>>
       ELSE /\ return_code' = c.code
            /\ return_value' = PyStr(display(python, mbean_value, second_mbean,
                                             mbean_percent_factors))
            /\ pc' = "print"
            /\ UNCHANGED raised
    /\ UNCHANGED <<python, args, warning_thresh, critical_thresh, first_value,
                   second_mbean_value, mbean_value, mbean_percent_factors,
                   stdout, stderr, exit_code, log, http, result, samples>>

\* the explanations given to the JMXCheck constructor: __main__ gives two,
\* the constructor's defaults are empty
warn_explanation == IF caller = "cli" THEN "Warning explanation" ELSE ""
crit_expalanation == IF caller = "cli" THEN "Critical explanation" ELSE ""

return_classification(code) ==
    IF code = 1 THEN "WARNING" ELSE IF code = 2 THEN "CRITICAL" ELSE "OK"

explanation(code) ==
    IF code = 1 THEN warn_explanation ELSE IF code = 2 THEN crit_expalanation ELSE ""

\* the line check_metric prints
result_line(py, code, key, value) ==
    return_classification(code) \o " - " \o MBeanName \o " A:Value"
    \o (IF Truthy(key) THEN " K:" \o Str(py, key) ELSE "")
    \o " : " \o Str(py, value)

\* check_metric: print the result of validate_result and return its code
check_metric ==
    /\ pc = "print"
    /\ stdout' = stdout
                 \o << result_line(python, return_code, mbean_key, return_value) >>
                 \o (IF explanation(return_code) # ""
                     THEN << explanation(return_code) \o "\n" >> ELSE << >>)
    /\ pc' = "returned"
    /\ UNCHANGED <<python, args, warning_thresh, critical_thresh, locals, raised,
                   stderr, exit_code, log, http, result, samples>>

\* __main__: sys.exit(jmx_check.check_metric(...))
sys_exit ==
    /\ pc = "returned"
    /\ caller = "cli"
    /\ exit_code' = return_code
    /\ pc' = "exited"
    /\ UNCHANGED <<python, args, warning_thresh, critical_thresh, locals, raised,
                   stdout, stderr, log, http, result, samples>>

\* __main__ has no handler: the interpreter prints the traceback to the
\* standard error and exits with status 1
uncaught_exception ==
    /\ pc = "raised"
    /\ caller = "cli"
    /\ stderr' = Append(stderr, "Traceback (most recent call last): " \o raised)
    /\ exit_code' = 1
    /\ pc' = "exited"
    /\ UNCHANGED <<python, args, warning_thresh, critical_thresh, locals, raised,
                   stdout, log, http, result, samples>>

Next ==
    \/ main
    \/ library_call
    \/ resolve_warning
    \/ resolve_critical
    \/ fetch_primary
    \/ fetch_second
    \/ validate_result
    \/ check_metric
    \/ sys_exit
    \/ uncaught_exception

Spec == Init /\ [][Next]_vars

----------------------------------------------------------------------------
\* Properties

\* validate_result has classified mbean_value and returned
Classified == pc \in {"print", "returned", "exited"} /\ return_value # PyNone

\* the condition of a level as the documentation states it: equal strings in
\* compare mode, otherwise the value at or beyond the threshold
LevelHolds(thresh) ==
    IF compare THEN Str(python, mbean_value) = Str(python, thresh)
    ELSE /\ IsNum(mbean_value)
         /\ Float(thresh).exc = "none"
         /\ IF reverse THEN mbean_value.n <= Float(thresh).n
            ELSE mbean_value.n >= Float(thresh).n

\* C1: in every mode the critical condition is checked before the warning
\* condition: a value that satisfies the critical condition is CRITICAL
\* whatever the warning threshold is, and WARNING is returned only when the
\* critical condition is false and the warning condition holds
C1_CriticalBeforeWarning ==
    Classified =>
        /\ LevelHolds(critical_thresh) => return_code = 2
        /\ return_code = 1 => ~LevelHolds(critical_thresh) /\ LevelHolds(warning_thresh)

\* value 1 against warning 1 and critical 1 in range mode: both conditions
\* hold and the result is CRITICAL
C1_Witness ==
    /\ Classified
    /\ ~compare /\ ~reverse
    /\ mbean_value = PyInt(1)
    /\ LevelHolds(critical_thresh) /\ LevelHolds(warning_thresh)
    /\ return_code = 2

\* C2: in reverse range mode a numeric value v is CRITICAL when v <= c,
\* otherwise WARNING when v <= w, otherwise OK
C2_ReverseRange ==
    (Classified /\ ~compare /\ reverse /\ IsNum(mbean_value)) =>
        return_code =
            IF mbean_value.n <= Float(critical_thresh).n THEN 2
            ELSE IF mbean_value.n <= Float(warning_thresh).n THEN 1
            ELSE 0

\* a value above the critical threshold and below the warning threshold is
\* WARNING, although it is >= the critical threshold
C2_Witness ==
    /\ Classified /\ ~compare /\ reverse /\ IsNum(mbean_value)
    /\ mbean_value.n > Float(critical_thresh).n
    /\ mbean_value.n < Float(warning_thresh).n
    /\ return_code = 1

\* C3: in compare mode the severity depends on the string forms only:
\* CRITICAL iff str(value) = str(critical), otherwise WARNING iff
\* str(value) = str(warning), otherwise OK, whatever the reverse flag is
C3_CompareStrings ==
    (Classified /\ compare) =>
        return_code =
            IF Str(python, mbean_value) = Str(python, critical_thresh) THEN 2
            ELSE IF Str(python, mbean_value) = Str(python, warning_thresh) THEN 1
            ELSE 0

\* a value numerically equal to both thresholds and below neither, whose
\* string form differs from theirs, is OK in compare mode with reverse set
C3_Witness ==
    /\ Classified /\ compare /\ reverse
    /\ IsNum(mbean_value)
    /\ Float(critical_thresh).exc = "none" /\ Float(critical_thresh).n = mbean_value.n
    /\ Float(warning_thresh).exc = "none" /\ Float(warning_thresh).n = mbean_value.n
    /\ return_code = 0

\* a threshold MBean was fetched and gave zero or several samples
Ambiguous(role) == samples[role] # -1 /\ samples[role] # 1

\* C4: a threshold MBean that yields zero or several samples raises
\* nothing: validate_result returns (2, None) and check_metric returns 2
C4_AmbiguousThresholdCritical ==
    (Ambiguous("warning") \/ Ambiguous("critical")) =>
        /\ pc \in {"print", "returned"}
        /\ raised = "none"
        /\ return_code = 2
        /\ return_value = PyNone

C4_Witness ==
    /\ pc = "returned"
    /\ samples["warning"] = 1
    /\ samples["critical"] = 2
    /\ return_code = 2
    /\ return_value = PyNone

\* C5: the fetch of the primary MBean, and of the second one, must yield
\* exactly one sample: otherwise the evaluation ends in an error and no
\* severity is computed
C5_ExactlyOneSample ==
    (Ambiguous("primary") \/ Ambiguous("second")) => ~Classified

\* C6: the command-line program exits with 2 and prints the message on the
\* standard output when a fetch fails with a connection error or an invalid
\* response, and otherwise exits with the severity
C6_ExitCode ==
    (pc = "exited") =>
        IF raised \in {"JolokiaConnectionError", "JolokiaInvalidResponse"}
        THEN exit_code = 2 /\ stdout # << >>
        ELSE raised = "none" => exit_code = return_code

\* C7: every failure of the HTTP GET leaves get_jmx_result as a
\* JolokiaConnectionError
C7_ConnectionError ==
    (http.kind = "exc") => result.exc = "JolokiaConnectionError"

\* a response whose JSON body has a 'value' and a 'request' object, the
\* value being a mapping when the request names no mbean
WellFormed ==
    /\ http.kind = "resp" /\ http.status_code = 200
    /\ http.body.t = "dict"
    /\ Has(http.body, "value") /\ Has(http.body, "request")
    /\ Has(Get(http.body, "request"), "mbean") \/ Get(http.body, "value").t = "dict"

\* C8: for a well-formed response get_jmx_result returns one MBeanResult
\* named by request.mbean holding the whole value when the request has an
\* mbean key, and otherwise one MBeanResult per entry of the value mapping,
\* named by the entry's key and holding the entry's value
C8_ResultList ==
    WellFormed =>
        /\ result.exc = "none"
        /\ LET request == Get(http.body, "request")
               value == Get(http.body, "value")
               list == result.v.items
           IN  IF Has(request, "mbean")
               THEN /\ Len(list) = 1
                    /\ list[1].mbean_name = Get(request, "mbean").s
                    /\ list[1].content = value
               ELSE /\ Len(list) = Len(value.items)
                    /\ \A i \in 1..Len(value.items) :
                          \E j \in 1..Len(list) :
                             /\ list[j].mbean_name = value.items[i][1]
                             /\ list[j].content = value.items[i][2]

\* a pattern response with two beans gave two results
C8_Witness ==
    /\ WellFormed
    /\ ~Has(Get(http.body, "request"), "mbean")
    /\ Len(Get(http.body, "value").items) = 2
    /\ Len(result.v.items) = 2

\* the percentage of p in s rounded to the nearest integer
NearestPercent(p, s) ==
  CHOOSE k \in 0..(100 * (MaxVal + 1)) :
    /\ 2 * (100 * p - k * s) <= s
    /\ 2 * (k * s - 100 * p) <= s
    /\ (2 * (100 * p - k * s) = s \/ 2 * (k * s - 100 * p) = s) => k % 2 = 0

\* C9: with a second MBean the value classified is round(p / s * 100), p
\* and s being the values of the primary and the second MBean (1 of 2 is
\* 50), and the display is built from it
C9_Percentage ==
    (Truthy(second_mbean) /\ Classified /\ IsNum(first_value)) =>
        mbean_value.n = NearestPercent(first_value.n, second_mbean_value.n)

\* the position of a fetch in the order of validate_result
Rank(role) ==
    CASE role = "warning" -> 1
      [] role = "critical" -> 2
      [] role = "primary" -> 3
      [] role = "second" -> 4

\* fetch k of the run
FetchRole(k) == log[2 * k][2]
NumFetches == Len(log) \div 2

\* C10: the fetches of one invocation are issued in the order warning,
\* critical, primary, second, each at most once and each completed before
\* the next begins; nothing is fetched after a threshold MBean gave zero or
\* several samples, nor after a fetch raised
C10_FetchOrder ==
    /\ Len(log) % 2 = 0
    /\ \A k \in 1..NumFetches :
          /\ log[2 * k - 1] = <<"request", FetchRole(k)>>
          /\ log[2 * k] = <<"completed", FetchRole(k)>>
    /\ \A k, l \in 1..NumFetches : k < l => Rank(FetchRole(k)) < Rank(FetchRole(l))
    /\ \A k \in 1..NumFetches :
          LET role == FetchRole(k) IN
          (samples[role] = -1 \/ (role \in {"warning", "critical"} /\ Ambiguous(role)))
              => k = NumFetches

\* all four fetches were made, in order
C10_Witness ==
    /\ pc = "returned"
    /\ NumFetches = 4
    /\ FetchRole(1) = "warning" /\ FetchRole(4) = "second"

\* a warning threshold MBean with no sample: nothing else was fetched
C10_WitnessStop ==
    /\ pc = "returned"
    /\ samples["warning"] = 0
    /\ NumFetches = 1

====
